---- MODULE Spec2Model ----
(***************************************************************************)
(* The live rollout monitor of devit (src/src/dashboard.rs): Dashboard::run *)
(* acquires the terminal and builds the cluster client, Dashboard::run_loop *)
(* lists pods, spawns one tail task per newly running pod, drains the log  *)
(* channel into two bounded buffers, draws and polls the keyboard.  The    *)
(* tail tasks run concurrently with the loop and with each other.          *)
(***************************************************************************)
EXTENDS Integers, Sequences, FiniteSets, TLC

(* ------------------------------ bounds --------------------------------- *)
\* most lines of a YAML content given to update_image_tag
MaxContentLines == 3
\* most lines pushed to a buffer before it is rendered
MaxPushed == 102
\* longest random text given to the log parser, in tokens
MaxTextLen == 3
\* longest image string and longest tag given to the classification
MaxImageLen == 3
MaxTagLen == 2
\* lines a pod's log stream delivers at most, in the interleaving scenario
MaxLines == 2
\* lines the single pod's stream delivers at most, in the filling scenario
FillLines == 101
\* records in flight in the (unbounded) channel
MaxChan == 2
\* terminal events waiting to be read
MaxEvents == 2
\* the spawn counter saturates here
SpawnCap == 2

(* -------------------------- program constants -------------------------- *)
\* capacity of a generation buffer (dashboard.rs:201, 204)
LogCap == 100
\* entries of a buffer that a log column shows at most (dashboard.rs:270, 277)
RenderCap == 50

(* ------------------------------ universe ------------------------------- *)
\* pod names, as their '-'-separated segments
PodA == <<"app", "a">>
PodB == <<"app", "b">>
AllPods == {PodA, PodB}
\* the order in which the API server lists pods
PodOrder == <<PodA, PodB>>

\* strings that matter character by character are sequences of characters
Tag == <<"v", "2">>
ImgOld == <<"a", ":", "v", "1">>
ImgNew == <<"a", ":", "v", "2">>
\* Option<T>: None is <<>>, Some(x) is <<x>>
None == <<>>
Some(x) == <<x>>
Images == {Some(ImgOld), Some(ImgNew)}
Phases == {Some("Running"), Some("Pending")}
TermEvents == {"key_q", "mouse"}

VARIABLES
  pc,            \* position of Dashboard::run / run_loop
  raw_mode,      \* terminal is in raw mode
  alt_screen,    \* terminal shows the alternate screen
  result,        \* what Dashboard::run returned ("pending" until it returns)
  pods,          \* self.pods
  tailed_pods,   \* self.tailed_pods
  old_logs,      \* self.old_logs
  new_logs,      \* self.new_logs
  log_chan,      \* records sent on log_tx and not yet received on log_rx
  workers,       \* per pod: state of its spawned tail task
  events,        \* terminal events waiting for event::read
  last_list,     \* outcome of this iteration's pods_api.list call, until the drain
                 \* ends: "err", "ok", or "ok_late" when the answer lists as Running
                 \* a pod that the roster held in another phase
  spawn_count,   \* history: tokio::spawn calls per pod name
  recv_old,      \* history: records of generation Old received, in order
  recv_new,      \* history: records of generation New received, in order
  cluster,       \* environment: the cluster's pods, each with the <<phase, image>>
                 \* pairs the API server may report for it
  stream_len,    \* environment: lines each pod's log stream delivers at most
  flaky,         \* environment: pods whose log stream may fail
  endless,       \* environment: pods that never stop logging (their stream
                 \* starts again at its first line after its last)
  rx_alive,      \* log_rx exists: the Dashboard value has not been dropped
  lost,          \* history: pods of which a record was sent after log_rx was dropped
  arg,           \* the argument of a function studied on its own
  ret            \* its result, None until it has returned

vars == <<pc, raw_mode, alt_screen, result, pods, tailed_pods, old_logs,
          new_logs, log_chan, workers, events, last_list, spawn_count,
          recv_old, recv_new, cluster, stream_len, flaky, endless,
          rx_alive, lost, arg, ret>>

termVars == <<raw_mode, alt_screen>>
sessionVars == <<pods, tailed_pods, old_logs, new_logs>>
envVars == <<cluster, stream_len, flaky, endless>>
histVars == <<recv_old, recv_new>>
callVars == <<arg, ret>>
outerVars == <<rx_alive, lost, callVars>>

(* ------------------------------ helpers -------------------------------- *)
Last(s) == s[Len(s)]

\* str::ends_with
EndsWith(hay, needle) ==
  /\ Len(needle) <= Len(hay)
  /\ SubSeq(hay, Len(hay) - Len(needle) + 1, Len(hay)) = needle

\* str::contains: needle occurs in hay as a contiguous substring
Contains(hay, needle) ==
  \E i \in 0..(Len(hay) - Len(needle)) :
     \A j \in 1..Len(needle) : hay[i + j] = needle[j]

\* line 116-119: first container's image contains the tag; no image: false
Classify(image, tag) == IF image = None THEN FALSE ELSE Contains(image[1], tag)
IsNew(image) == Classify(image, Tag)

\* line 112-114: the phase, or "Unknown"
StatusOf(phase) == IF phase = None THEN "Unknown" ELSE phase[1]

(* ------------------------- log lines and records ----------------------- *)
\* A line of text is a sequence of tokens: the space " ", the JSON punctuation
\* "{" "}" ":" ",", the number "7", the literal "null", quoted strings (the
\* tokens of Unquote), and bare words (any other token).
\* the text of line k of a pod's stream
StreamLine(p, k) == [text |-> <<" ", "l", ToString(k)>>]

RECURSIVE TrimStart(_)
TrimStart(s) == IF Len(s) > 0 /\ s[1] = " " THEN TrimStart(Tail(s)) ELSE s
RECURSIVE TrimEnd(_)
TrimEnd(s) ==
  IF Len(s) > 0 /\ s[Len(s)] = " " THEN TrimEnd(SubSeq(s, 1, Len(s) - 1)) ELSE s
\* str::trim
TrimLeft(s) == TrimStart(s)
Trim(s) == TrimEnd(TrimStart(s))

\* the quoted strings of the model and the string each one denotes; a string
\* is a sequence of words or characters
Unquote ==
  [t \in {"\"severity\"", "\"level\"", "\"timestamp\"", "\"time\"", "\"message\"",
          "\"msg\"", "\"textPayload\"", "\"fields\""} |->
     CASE t = "\"severity\"" -> <<"severity">> [] t = "\"level\"" -> <<"level">>
       [] t = "\"timestamp\"" -> <<"timestamp">> [] t = "\"time\"" -> <<"time">>
       [] t = "\"message\"" -> <<"message">> [] t = "\"msg\"" -> <<"msg">>
       [] t = "\"textPayload\"" -> <<"textPayload">> [] t = "\"fields\"" -> <<"fields">>]
  @@ ("\"error\"" :> <<"error">>) @@ ("\"warn\"" :> <<"warn">>)
  @@ ("\"1T2.3\"" :> <<"1", "T", "2", ".", "3">>)
  @@ ("\"4T5.6\"" :> <<"4", "T", "5", ".", "6">>)
  @@ ("\"m1\"" :> <<"m1">>) @@ ("\"m2\"" :> <<"m2">>)
  @@ ("\"m3\"" :> <<"m3">>) @@ ("\"m4\"" :> <<"m4">>)

\* serde_json's parser, on tokens that are not spaces: a value starting at t[i].
\* A JSON value is [kind, s] for a string, a number and null, [kind, f] for an
\* object with members f; the result says where the value ends.
NoValue == [ok |-> FALSE]
RECURSIVE ParseValue(_, _)
RECURSIVE ParseMembers(_, _, _)
ParseValue(t, i) ==
  IF i > Len(t) THEN NoValue
  ELSE IF t[i] \in DOMAIN Unquote
       THEN [ok |-> TRUE, v |-> [kind |-> "str", s |-> Unquote[t[i]]], next |-> i + 1]
  ELSE IF t[i] = "7"
       THEN [ok |-> TRUE, v |-> [kind |-> "num", s |-> <<t[i]>>], next |-> i + 1]
  ELSE IF t[i] = "null"
       THEN [ok |-> TRUE, v |-> [kind |-> "null", s |-> <<t[i]>>], next |-> i + 1]
  ELSE IF t[i] = "{"
       THEN IF i + 1 <= Len(t) /\ t[i + 1] = "}"
            THEN [ok |-> TRUE, v |-> [kind |-> "obj", f |-> <<>>], next |-> i + 2]
            ELSE ParseMembers(t, i + 1, <<>>)
  ELSE NoValue
\* the members of an object from t[i] on, f being those read so far; of two
\* members with the same key the later one stays
ParseMembers(t, i, f) ==
  IF i + 1 <= Len(t) /\ t[i] \in DOMAIN Unquote /\ t[i + 1] = ":"
  THEN LET r == ParseValue(t, i + 2)
       IN IF ~r.ok \/ r.next > Len(t) THEN NoValue
          ELSE LET g == (Unquote[t[i]] :> r.v) @@ f
               IN IF t[r.next] = "}"
                  THEN [ok |-> TRUE, v |-> [kind |-> "obj", f |-> g], next |-> r.next + 1]
                  ELSE IF t[r.next] = ","
                       THEN ParseMembers(t, r.next + 1, g)
                       ELSE NoValue
  ELSE NoValue

\* serde_json::from_str::<Value>: white space is skipped, the whole text must
\* be one value; None for Err
FromStr(text) ==
  LET t == SelectSeq(text, LAMBDA x : x # " ")
      r == ParseValue(t, 1)
  IN IF r.ok /\ r.next = Len(t) + 1 THEN Some(r.v) ELSE None

\* serde_json::Value::get with a one-word string key: None unless an object
\* holding it
Get(v, key) ==
  IF v.kind = "obj" /\ <<key>> \in DOMAIN v.f THEN Some(v.f[<<key>>]) ELSE None
\* Option::or_else
OrElseLater(a, b) == IF Len(b) > 0 THEN b ELSE a
OrElseString(a, b) == IF Len(a) > 0 /\ a[1].kind = "str" THEN a ELSE b
OrElse(a, b) == IF Len(a) > 0 THEN a ELSE b
\* Option<&Value>::and_then(Value::as_str)
AsStr(o) == IF Len(o) > 0 /\ o[1].kind = "str" THEN Some(o[1].s) ELSE None
\* str::to_uppercase, word by word, on the words of the model
UpperWord(w) ==
  CASE w = "error" -> "ERROR" [] w = "warn" -> "WARN" [] w = "info" -> "INFO"
    [] OTHER -> w
ToUpper(s) == [i \in 1..Len(s) |-> UpperWord(s[i])]

\* lines 139-172: the record a tail task builds from one line of its stream
ParseLine(p, line, is_new) ==
  LET raw_content == Trim(line.text)
      base == [pod_name |-> p, content |-> raw_content, level |-> None,
               timestamp |-> None, is_new |-> is_new]
      json == FromStr(raw_content)
  IN IF Len(json) = 0 THEN base
     ELSE LET v == json[1]
              lvl == AsStr(OrElse(Get(v, "severity"), Get(v, "level")))
              ts == AsStr(OrElse(Get(v, "timestamp"), Get(v, "time")))
              fm == LET f == Get(v, "fields")
                    IN IF Len(f) > 0 THEN Get(f[1], "message") ELSE None
              msg == AsStr(OrElse(Get(v, "message"), OrElse(Get(v, "msg"),
                                  OrElse(Get(v, "textPayload"), fm))))
          IN [base EXCEPT
                !.level = IF Len(lvl) > 0 THEN Some(ToUpper(lvl[1])) ELSE None,
                !.timestamp = ts,
                !.content = IF Len(msg) > 0 THEN msg[1] ELSE raw_content]

\* lines 179-185: the record sent when the stream cannot be opened
ErrorRecord(p, is_new) ==
  [pod_name |-> p, content |-> <<"Error streaming logs">>,
   level |-> Some(<<"ERROR">>), timestamp |-> None, is_new |-> is_new]

\* the part of s after the last c (all of s when c does not occur)
AfterLast(s, c) ==
  IF \E i \in 1..Len(s) : s[i] = c
  THEN LET i == CHOOSE i \in 1..Len(s) : s[i] = c /\ \A j \in (i+1)..Len(s) : s[j] # c
       IN SubSeq(s, i + 1, Len(s))
  ELSE s
\* the part of s before the first c (all of s when c does not occur)
BeforeFirst(s, c) ==
  IF \E i \in 1..Len(s) : s[i] = c
  THEN LET i == CHOOSE i \in 1..Len(s) : s[i] = c /\ \A j \in 1..(i-1) : s[j] # c
       IN SubSeq(s, 1, i - 1)
  ELSE s

\* lines 222-232: "[pod_id] ts level content", kept as its four parts
format_log_line(log) ==
  [pod_id |-> Last(log.pod_name),
   ts |-> IF Len(log.timestamp) = 0 THEN <<>>
          ELSE BeforeFirst(AfterLast(log.timestamp[1], "T"), ".") \o <<" ">>,
   level |-> IF Len(log.level) = 0 THEN <<"INFO">> ELSE log.level[1],
   content |-> log.content]

\* lines 200-201, 203-204: push, then drop the oldest entry when over capacity
PushNoEvict(buf, line) == Append(buf, line)
PushEvictNewest(buf, line) ==
  IF Len(buf) >= LogCap THEN buf ELSE Append(buf, line)
PushBounded(buf, line) ==
  LET b == Append(buf, line) IN IF Len(b) > LogCap THEN Tail(b) ELSE b

\* the receive histories keep the last HistCap records: one more than a buffer
HistCap == LogCap + 1
Record(hist, log) ==
  LET h == Append(hist, log) IN IF Len(h) > HistCap THEN Tail(h) ELSE h

(* ------------------------------ the state ------------------------------ *)
LoopPcs == {"list", "drain", "draw", "poll"}

\* a tail task that was never spawned
NoWorker == [st |-> "none", is_new |-> FALSE, k |-> 0, failed |-> "no"]
\* a tail task right after tokio::spawn (line 127)
NewWorkerOld(is_new) == [NoWorker EXCEPT !.st = "opening"]
NewWorker(is_new) == [NoWorker EXCEPT !.st = "opening", !.is_new = is_new]

\* Dashboard::new (lines 51-68), before run is called
InitSession ==
  /\ pc = "enable_raw"
  /\ raw_mode = FALSE
  /\ alt_screen = FALSE
  /\ result = "pending"
  /\ pods = <<>>
  /\ tailed_pods = {}
  /\ old_logs = <<>>
  /\ new_logs = <<>>
  /\ log_chan = <<>>
  /\ workers = [p \in AllPods |-> NoWorker]
  /\ events = <<>>
  /\ last_list = "none"
  /\ spawn_count = [p \in AllPods |-> 0]
  /\ recv_old = <<>>
  /\ recv_new = <<>>
  /\ rx_alive = TRUE
  /\ lost = {}

\* no function is studied on its own
NoCall == arg = <<>> /\ ret = <<>>

\* several pods with short streams: the interleavings of the tail tasks
Init ==
  /\ InitSession
  /\ cluster = (PodA :> {<<Some("Running"), Some(ImgNew)>>})
               @@ (PodB :> {<<Some("Running"), Some(ImgNew)>>,
                            <<Some("Running"), Some(ImgOld)>>,
                            <<Some("Pending"), Some(ImgOld)>>})
  /\ stream_len = (PodA :> MaxLines) @@ (PodB :> 1)
  /\ flaky = {PodB}
  /\ endless = {}
  /\ NoCall
\* one pod with a long stream: a buffer filled past its capacity
InitFill ==
  /\ InitSession
  /\ cluster = (PodA :> {<<Some("Running"), Some(ImgOld)>>,
                         <<Some("Pending"), Some(ImgOld)>>})
  /\ stream_len = (PodA :> FillLines)
  /\ flaky = {PodA}
  /\ endless = {}
  /\ NoCall

(* --------------------------- Dashboard::run ---------------------------- *)
\* run returns err without restoring anything (the ? operator)
ReturnErr(err) ==
  /\ result' = err
  /\ pc' = "done"

\* line 71
EnableRawMode ==
  /\ pc = "enable_raw"
  /\ \/ /\ raw_mode' = TRUE
        /\ pc' = "enter_alt"
        /\ UNCHANGED result
     \/ /\ ReturnErr("Err:enable_raw_mode")
        /\ UNCHANGED raw_mode
  /\ UNCHANGED <<alt_screen, sessionVars, log_chan, workers, events,
                 last_list, spawn_count, histVars, envVars, outerVars>>

\* line 73
EnterAlternateScreen ==
  /\ pc = "enter_alt"
  /\ \/ /\ alt_screen' = TRUE
        /\ pc' = "terminal_new"
        /\ UNCHANGED result
     \/ /\ ReturnErr("Err:enter_alt")
        /\ alt_screen' \in BOOLEAN   \* the write may have failed half way
  /\ UNCHANGED <<raw_mode, sessionVars, log_chan, workers, events,
                 last_list, spawn_count, histVars, envVars, outerVars>>

\* line 75
TerminalNew ==
  /\ pc = "terminal_new"
  /\ \/ pc' = "kubeconfig" /\ UNCHANGED result
     \/ ReturnErr("Err:terminal_new")
  /\ UNCHANGED <<termVars, sessionVars, log_chan, workers, events,
                 last_list, spawn_count, histVars, envVars, outerVars>>

\* lines 77-81
LoadKubeconfig ==
  /\ pc = "kubeconfig"
  /\ \/ pc' = "client" /\ UNCHANGED result
     \/ ReturnErr("Err:kubeconfig")
  /\ UNCHANGED <<termVars, sessionVars, log_chan, workers, events,
                 last_list, spawn_count, histVars, envVars, outerVars>>

\* line 82; on success run_loop is entered (line 84)
CreateClient ==
  /\ pc = "client"
  /\ \/ pc' = "list" /\ UNCHANGED result
     \/ ReturnErr("Err:client")
  /\ UNCHANGED <<termVars, sessionVars, log_chan, workers, events,
                 last_list, spawn_count, histVars, envVars, outerVars>>

\* lines 84-94: run_loop has returned r; run restores the terminal and returns.
\* Nothing reads the event queue after that, so the queue is forgotten.
Restore(r) ==
  /\ pc' = "done"
  /\ events' = <<>>
  /\ \/ \* line 86 fails
        /\ result' = "Err:disable_raw_mode"
        /\ UNCHANGED termVars
     \/ \* lines 87-91 fail; the write may have failed half way
        /\ raw_mode' = FALSE
        /\ alt_screen' \in BOOLEAN
        /\ result' = "Err:leave_alt"
     \/ \* line 92 fails, or line 94 returns r
        /\ raw_mode' = FALSE
        /\ alt_screen' = FALSE
        /\ result' \in {r, "Err:show_cursor"}

(* ------------------------ run_loop: discovery -------------------------- *)
\* line 121: a tail task is spawned for this list item
SpawnAlways(name, status, tailed) == status = "Running"
SpawnAnyPhase(name, status, tailed) == name \notin tailed
SpawnIfEnded(name, status, tailed) ==
  status = "Running" /\ (name \notin tailed \/ workers[name].st = "done")
ShouldSpawn(name, status, tailed) == name \notin tailed /\ status = "Running"

\* line 122: the name joins tailed_pods when its task is spawned
TailedAfterSeen(name, spawn, tailed) == tailed \cup {name}
TailedAfterReset(name, spawn, tailed) == IF spawn THEN {name} ELSE tailed
TailedAfter(name, spawn, tailed) == IF spawn THEN tailed \cup {name} ELSE tailed

\* lines 110-192: the list items in order; acc holds tailed_pods, current_pods
\* and the tasks spawned so far
RECURSIVE ProcessItems(_, _)
ProcessItems(items, acc) ==
  IF items = <<>> THEN acc
  ELSE LET p == Head(items)
           name == p.name
           status == StatusOf(p.phase)
           is_new == IsNew(p.image)
           spawn == ShouldSpawn(name, status, acc.tailed)
       IN ProcessItems(Tail(items),
            [tailed |-> TailedAfter(name, spawn, acc.tailed),
             spawned |-> IF spawn
                         THEN Append(acc.spawned, [name |-> name, is_new |-> is_new])
                         ELSE acc.spawned,
             current_pods |-> Append(acc.current_pods,
                                [name |-> name, status |-> status, is_new |-> is_new])])

\* what the API server may answer: each pod of the cluster absent (<<>>) or
\* listed with one of its <<phase, first-container image>> pairs
ListChoices ==
  {f \in [DOMAIN cluster -> {<<>>} \cup (Phases \X Images)] :
     \A p \in DOMAIN cluster : f[p] = <<>> \/ f[p] \in cluster[p]}
ItemsOf(choice) ==
  LET present == SelectSeq(PodOrder, LAMBDA p : p \in DOMAIN cluster /\ choice[p] # <<>>)
  IN [i \in 1..Len(present) |->
        [name |-> present[i], phase |-> choice[present[i]][1],
         image |-> choice[present[i]][2]]]

\* the pod list after a failed list call (line 108: the if-let does not match)
PodsCleared(old) == <<>>
PodsAfterListErr(old) == old

\* this answer lists as Running a pod that the roster holds in another phase
StartsLate(items) ==
  \E i \in 1..Len(items), j \in 1..Len(pods) :
     /\ items[i].name = pods[j].name
     /\ StatusOf(items[i].phase) = "Running"
     /\ pods[j].status # "Running"

\* lines 108-194 with Ok(pod_list)
ListOk ==
  /\ pc = "list"
  /\ \E choice \in ListChoices :
       LET out == ProcessItems(ItemsOf(choice),
                    [tailed |-> tailed_pods, spawned |-> <<>>, current_pods |-> <<>>])
           times(p) == Cardinality({i \in 1..Len(out.spawned) : out.spawned[i].name = p})
           lastOf(p) == CHOOSE i \in 1..Len(out.spawned) :
                          /\ out.spawned[i].name = p
                          /\ \A j \in (i+1)..Len(out.spawned) : out.spawned[j].name # p
       IN /\ tailed_pods' = out.tailed
          /\ pods' = out.current_pods
          /\ workers' = [p \in AllPods |->
                           IF times(p) > 0 THEN NewWorker(out.spawned[lastOf(p)].is_new)
                           ELSE workers[p]]
          /\ spawn_count' = [p \in AllPods |->
                               IF spawn_count[p] + times(p) > SpawnCap THEN SpawnCap
                               ELSE spawn_count[p] + times(p)]
          /\ last_list' = IF StartsLate(ItemsOf(choice)) THEN "ok_late" ELSE "ok"
  /\ pc' = "drain"
  /\ UNCHANGED <<termVars, result, old_logs, new_logs, log_chan, events,
                 histVars, envVars, outerVars>>

\* line 108 with Err: the tick is skipped
ListErrPropagates ==
  /\ pc = "list"
  /\ last_list' = "err"
  /\ pc' = "done"
  /\ result' = "Err:list"
  /\ UNCHANGED <<termVars, sessionVars, log_chan, workers, events, spawn_count,
                 histVars, envVars, outerVars>>
ListErr ==
  /\ pc = "list"
  /\ last_list' = "err"
  /\ pods' = PodsAfterListErr(pods)
  /\ pc' = "drain"
  /\ UNCHANGED <<termVars, result, tailed_pods, old_logs, new_logs, log_chan,
                 workers, events, spawn_count, histVars, envVars, outerVars>>

(* -------------------------- run_loop: drain ---------------------------- *)
\* lines 197-205: try_recv yields a record, which goes to its generation's buffer
DrainRecvBoth ==
  /\ pc = "drain"
  /\ log_chan # <<>>
  /\ new_logs' = PushBounded(new_logs, format_log_line(Head(log_chan)))
  /\ old_logs' = PushBounded(old_logs, format_log_line(Head(log_chan)))
  /\ IF Head(log_chan).is_new
     THEN recv_new' = Record(recv_new, Head(log_chan)) /\ UNCHANGED recv_old
     ELSE recv_old' = Record(recv_old, Head(log_chan)) /\ UNCHANGED recv_new
  /\ log_chan' = Tail(log_chan)
  /\ UNCHANGED <<pc, termVars, result, pods, tailed_pods, workers, events,
                 last_list, spawn_count, envVars, outerVars>>
DrainRecv ==
  /\ pc = "drain"
  /\ log_chan # <<>>
  /\ LET log == Head(log_chan)
         display_line == format_log_line(log)
     IN IF log.is_new
        THEN /\ new_logs' = PushBounded(new_logs, display_line)
             /\ recv_new' = Record(recv_new, log)
             /\ UNCHANGED <<old_logs, recv_old>>
        ELSE /\ old_logs' = PushBounded(old_logs, display_line)
             /\ recv_old' = Record(recv_old, log)
             /\ UNCHANGED <<new_logs, recv_new>>
  /\ log_chan' = Tail(log_chan)
  /\ UNCHANGED <<pc, termVars, result, pods, tailed_pods, workers, events,
                 last_list, spawn_count, envVars, outerVars>>

\* line 197: try_recv finds the channel empty, the while-let ends
DrainEndsEarly ==
  /\ pc = "drain"
  /\ pc' = "draw"
  /\ last_list' = "none"
  /\ UNCHANGED <<termVars, result, sessionVars, log_chan, workers, events,
                 spawn_count, histVars, envVars, outerVars>>
DrainEmpty ==
  /\ pc = "drain"
  /\ log_chan = <<>>
  /\ pc' = "draw"
  /\ last_list' = "none"
  /\ UNCHANGED <<termVars, result, sessionVars, log_chan, workers, events,
                 spawn_count, histVars, envVars, outerVars>>

(* --------------------------- run_loop: draw ---------------------------- *)
\* line 209
Draw ==
  /\ pc = "draw"
  /\ \/ /\ pc' = "poll"
        /\ UNCHANGED <<termVars, result, events>>
     \/ Restore("Err:draw")
  /\ UNCHANGED <<sessionVars, log_chan, workers, last_list, spawn_count,
                 histVars, envVars, outerVars>>

\* Iterator::rev and Iterator::take
KeepOrder(s) == s
Reverse(s) == [i \in 1..Len(s) |-> s[Len(s) + 1 - i]]
Take(s, n) == SubSeq(s, 1, IF n < Len(s) THEN n ELSE Len(s))
\* lines 270 and 277: the entries a log column shows, top to bottom
RenderColumn(buf) == Take(Reverse(buf), RenderCap)

(* --------------------------- run_loop: input --------------------------- *)
\* line 213-214: the event read is the quit key
IsQuitWrongKey(ev) == ev = "mouse"
IsQuitAnyKey(ev) == ev \in {"key_q", "key_x"}
IsQuit(ev) == ev = "key_q"

\* what the loop does once event::read has returned ev (lines 213-218)
HandleEvent(ev) == IF IsQuit(ev) THEN "Ok" ELSE "continue"

\* lines 212-218
PollInput ==
  /\ pc = "poll"
  /\ \/ \* event::poll fails
        Restore("Err:poll")
     \/ \* event::poll times out: Ok(false)
        /\ events = <<>>
        /\ pc' = "list"
        /\ UNCHANGED <<termVars, result, events>>
     \/ \* Ok(true), event::read fails
        /\ events # <<>>
        /\ Restore("Err:read")
     \/ \* Ok(true), event::read returns the oldest waiting event
        /\ events # <<>>
        /\ IF HandleEvent(Head(events)) = "Ok"
           THEN Restore("Ok")
           ELSE /\ pc' = "list"
                /\ events' = Tail(events)
                /\ UNCHANGED <<termVars, result>>
  /\ UNCHANGED <<sessionVars, log_chan, workers, last_list, spawn_count,
                 histVars, envVars, outerVars>>

\* the operator presses a key or moves the mouse while the loop runs
EventArrives ==
  /\ pc \in LoopPcs
  /\ Len(events) < MaxEvents
  /\ \E ev \in TermEvents : events' = Append(events, ev)
  /\ UNCHANGED <<pc, termVars, result, sessionVars, log_chan, workers,
                 last_list, spawn_count, histVars, envVars, outerVars>>

(* ------------------------------ tail tasks ----------------------------- *)
\* log_tx.send on the unbounded channel (lines 174, 179)
SendFront(log) ==
  /\ Len(log_chan) < MaxChan
  /\ log_chan' = <<log>> \o log_chan
  /\ UNCHANGED lost
\* a record sent after log_rx was dropped is lost: send returns Err
Send(log) ==
  IF rx_alive
  THEN /\ Len(log_chan) < MaxChan
       /\ log_chan' = Append(log_chan, log)
       /\ UNCHANGED lost
  ELSE /\ lost' = lost \cup {log.pod_name}
       /\ UNCHANGED log_chan

\* lines 174, 179: "let _ =" drops the result of send (ok: it was Ok)
AfterSendUnwrap(w, ok) == IF ok THEN w ELSE [w EXCEPT !.st = "panicked"]
AfterSend(w, ok) == w

\* what the task does with an Err item of the stream (line 138: nothing)
WorkerAfterReadErr(w) == [w EXCEPT !.failed = "read"]

\* line 133: api.log_stream returns
OpenStream(p) ==
  /\ workers[p].st = "opening"
  /\ \/ /\ workers' = [workers EXCEPT ![p].st = "reading"]
        /\ UNCHANGED <<log_chan, lost>>
     \/ /\ p \in flaky
        /\ Send(ErrorRecord(p, workers[p].is_new))
        /\ workers' = [workers EXCEPT
                          ![p] = AfterSend([@ EXCEPT !.st = "done", !.failed = "open"],
                                           rx_alive)]
  /\ UNCHANGED <<pc, termVars, result, sessionVars, events, last_list,
                 spawn_count, histVars, envVars, rx_alive, callVars>>

\* lines 137-175: lines.next() yields Some(Ok(line)): parse and send
ReadLine(p) ==
  /\ workers[p].st = "reading"
  /\ workers[p].k < stream_len[p] \/ p \in endless
  /\ LET k == IF p \in endless THEN (workers[p].k % stream_len[p]) + 1
               ELSE workers[p].k + 1
     IN /\ Send(ParseLine(p, StreamLine(p, k), workers[p].is_new))
        /\ workers' = [workers EXCEPT ![p] = AfterSend([@ EXCEPT !.k = k], rx_alive)]
  /\ UNCHANGED <<pc, termVars, result, sessionVars, events, last_list,
                 spawn_count, histVars, envVars, rx_alive, callVars>>

\* lines 137-138: lines.next() yields Some(Err(_)): the item is skipped
ReadErr(p) ==
  /\ workers[p].st = "reading"
  /\ workers[p].failed = "no"
  /\ p \in flaky
  /\ workers' = [workers EXCEPT ![p] = WorkerAfterReadErr(@)]
  /\ UNCHANGED <<pc, termVars, result, sessionVars, log_chan, events,
                 last_list, spawn_count, histVars, envVars, outerVars>>

\* line 137: lines.next() yields None, the task ends
StreamEndUntail(p) ==
  /\ workers[p].st = "reading"
  /\ workers' = [workers EXCEPT ![p].st = "done"]
  /\ tailed_pods' = tailed_pods \ {p}
  /\ UNCHANGED <<pc, termVars, result, pods, old_logs, new_logs, log_chan, events,
                 last_list, spawn_count, histVars, envVars, outerVars>>
StreamEnd(p) ==
  /\ workers[p].st = "reading"
  /\ workers' = [workers EXCEPT ![p].st = "done"]
  /\ UNCHANGED <<pc, termVars, result, sessionVars, log_chan, events,
                 last_list, spawn_count, histVars, envVars, outerVars>>

(* ------------------------- after Dashboard::run ------------------------ *)
\* run has returned and its caller drops the Dashboard value, and log_rx with
\* it (main.rs:157-166); the tail tasks are detached and go on
DropSession ==
  /\ pc = "done"
  /\ rx_alive
  /\ rx_alive' = FALSE
  /\ log_chan' = <<>>
  /\ UNCHANGED <<pc, termVars, result, sessionVars, workers, events, last_list,
                 spawn_count, histVars, envVars, lost, callVars>>

(* --------------------------- specifications ---------------------------- *)
Next ==
  \/ EnableRawMode
  \/ EnterAlternateScreen
  \/ TerminalNew
  \/ LoadKubeconfig
  \/ CreateClient
  \/ ListOk
  \/ ListErr
  \/ DrainRecv
  \/ DrainEmpty
  \/ Draw
  \/ PollInput
  \/ EventArrives
  \/ \E p \in DOMAIN cluster : OpenStream(p)
  \/ \E p \in DOMAIN cluster : ReadLine(p)
  \/ \E p \in DOMAIN cluster : ReadErr(p)
  \/ \E p \in DOMAIN cluster : StreamEnd(p)

Spec == Init /\ [][Next]_vars
SpecFill == InitFill /\ [][Next]_vars

\* two pods with one line each, and the session dropped after run
InitDrop ==
  /\ InitSession
  /\ cluster = (PodA :> {<<Some("Running"), Some(ImgNew)>>})
               @@ (PodB :> {<<Some("Running"), Some(ImgOld)>>})
  /\ stream_len = (PodA :> 1) @@ (PodB :> 1)
  /\ flaky = {PodB}
  /\ endless = {}
  /\ NoCall
NextDrop == Next \/ DropSession
SpecDrop == InitDrop /\ [][NextDrop]_vars

\* one pod that never stops logging.  The loop is one task and each tail task
\* is one: the runtime keeps every task that can take a step running
InitLive ==
  /\ InitSession
  /\ cluster = (PodA :> {<<Some("Running"), Some(ImgNew)>>})
  /\ stream_len = (PodA :> 1)
  /\ flaky = {PodA}
  /\ endless = {PodA}
  /\ NoCall
LoopTask ==
  \/ EnableRawMode
  \/ EnterAlternateScreen
  \/ TerminalNew
  \/ LoadKubeconfig
  \/ CreateClient
  \/ ListOk
  \/ ListErr
  \/ DrainRecv
  \/ DrainEmpty
  \/ Draw
  \/ PollInput
TailTask(p) == OpenStream(p) \/ ReadLine(p)
SpecLive ==
  /\ InitLive
  /\ [][Next]_vars
  /\ WF_vars(LoopTask)
  /\ \A p \in AllPods : WF_vars(TailTask(p))

\* one pod whose first container's image is patched back and forth while it
\* runs: the ticks classify it now as New, now as Old
InitPatched ==
  /\ InitSession
  /\ cluster = (PodB :> {<<Some("Running"), Some(ImgNew)>>,
                         <<Some("Running"), Some(ImgOld)>>})
  /\ stream_len = (PodB :> MaxLines)
  /\ flaky = {PodB}
  /\ endless = {}
  /\ NoCall
SpecPatched == InitPatched /\ [][Next]_vars

\* the operator has typed ahead, or resized the window, before run is called:
\* events of every kind wait in the terminal's queue
TypedAhead ==
  UNION {[1..n -> TermEvents \cup {"key_x", "resize"}] : n \in 0..MaxEvents}
InitTyped ==
  /\ pc = "enable_raw"
  /\ raw_mode = FALSE
  /\ alt_screen = FALSE
  /\ result = "pending"
  /\ pods = <<>>
  /\ tailed_pods = {}
  /\ old_logs = <<>>
  /\ new_logs = <<>>
  /\ log_chan = <<>>
  /\ workers = [p \in AllPods |-> NoWorker]
  /\ events \in TypedAhead
  /\ last_list = "none"
  /\ spawn_count = [p \in AllPods |-> 0]
  /\ recv_old = <<>>
  /\ recv_new = <<>>
  /\ rx_alive = TRUE
  /\ lost = {}
  /\ cluster = (PodB :> {<<Some("Running"), Some(ImgOld)>>})
  /\ stream_len = (PodB :> 1)
  /\ flaky = {PodB}
  /\ endless = {}
  /\ NoCall
SpecTyped == InitTyped /\ [][Next]_vars

(* -------------------- functions studied on their own ------------------- *)
\* all strings over an alphabet, up to a length
StrsUpTo(alphabet, n) == UNION {[1..k -> alphabet] : k \in 0..n}

\* the session is constructed and not run; there is no cluster
dashVars == <<pc, termVars, result, sessionVars, log_chan, workers, events,
              last_list, spawn_count, histVars, envVars, rx_alive, lost>>
InitPure ==
  /\ InitSession
  /\ cluster = <<>>
  /\ stream_len = <<>>
  /\ flaky = {}
  /\ endless = {}
  /\ ret = None

\* the classification of lines 116-119, for any first-container image and tag
ScenarioAImage ==
  <<"g", "c", "r", ".", "i", "o", "/", "p", "r", "o", "j", "/", "a", "p", "p",
    ":", "v", "2">>
ClassifyInputs ==
  [image : {None, Some(ScenarioAImage)}
             \cup {Some(i) : i \in StrsUpTo({"v", "2", ":"}, MaxImageLen)},
   tag : StrsUpTo({"v", "2"}, MaxTagLen)]
InitClassify == InitPure /\ arg \in ClassifyInputs
CallClassify ==
  /\ ret = None
  /\ ret' = Some(Classify(arg.image, arg.tag))
  /\ UNCHANGED <<dashVars, arg>>
SpecClassify == InitClassify /\ [][CallClassify]_vars

\* the log parser of lines 139-172, for any line
\* Scenario C, and an object that is not closed
ScenarioCLine == <<"plain", " ", "text">>
UnclosedLine == <<"{", "\"level\"", ":", " ", "\"error\"">>
TextTokens == {" ", "{", "}", ":", "7", "null", "plain", "\"error\"", "\"level\""}
\* JSON objects: each key of the fallback chains absent ("-"), a string or a
\* number; "fields" absent, a number, or an object whose "message" is so
TopKeys == <<"severity", "level", "timestamp", "time", "message", "msg", "textPayload">>
StrTokenOf(key) ==
  CASE key = "severity" -> "\"error\"" [] key = "level" -> "\"warn\""
    [] key = "timestamp" -> "\"1T2.3\"" [] key = "time" -> "\"4T5.6\""
    [] key = "message" -> "\"m1\"" [] key = "msg" -> "\"m2\""
    [] key = "textPayload" -> "\"m3\"" [] key = "fields" -> "\"m4\""
KeyTokenOf(key) == CHOOSE t \in DOMAIN Unquote : Unquote[t] = <<key>>
ObjectShapes ==
  [{TopKeys[i] : i \in 1..Len(TopKeys)} -> {"-", "str", "num"}]
    \X {"-", "num", "empty", "str_message", "num_message"}
\* the text of an object of a given shape, as a logger writes it
RECURSIVE MemberTokens(_, _)
MemberTokens(shape, i) ==
  IF i > Len(TopKeys) THEN <<>>
  ELSE LET key == TopKeys[i]
           rest == MemberTokens(shape, i + 1)
       IN IF shape[key] = "-" THEN rest
          ELSE <<",", KeyTokenOf(key), ":", " ",
                 IF shape[key] = "str" THEN StrTokenOf(key) ELSE "7">> \o rest
FieldsTokens(kind) ==
  CASE kind = "-" -> <<>>
    [] kind = "num" -> <<",", KeyTokenOf("fields"), ":", "7">>
    [] kind = "empty" -> <<",", KeyTokenOf("fields"), ":", "{", "}">>
    [] kind = "str_message" ->
         <<",", KeyTokenOf("fields"), ":", "{", KeyTokenOf("message"), ":",
           StrTokenOf("fields"), "}">>
    [] kind = "num_message" ->
         <<",", KeyTokenOf("fields"), ":", "{", KeyTokenOf("message"), ":", "7", "}">>
ObjectText(shape) ==
  LET members == MemberTokens(shape[1], 1) \o FieldsTokens(shape[2])
  IN <<"{">> \o (IF members = <<>> THEN <<>> ELSE Tail(members)) \o <<"}">>
ParseInputs ==
  StrsUpTo(TextTokens, MaxTextLen) \cup {ScenarioCLine, UnclosedLine}
    \cup {ObjectText(shape) : shape \in ObjectShapes}
InitParse == InitPure /\ arg \in ParseInputs
CallParse ==
  /\ ret = None
  /\ ret' = Some(ParseLine(PodA, [text |-> arg], FALSE))
  /\ UNCHANGED <<dashVars, arg>>
SpecParse == InitParse /\ [][CallParse]_vars

\* the log column of lines 270-282, for a buffer arg.buf that has received
\* arg.n lines through the drain's push
DisplayLine(k) == format_log_line(ParseLine(PodA, StreamLine(PodA, k), FALSE))
InitRender == InitPure /\ arg = [buf |-> <<>>, n |-> 0]
PushLine ==
  /\ ret = None
  /\ arg.n < MaxPushed
  /\ arg' = [buf |-> PushBounded(arg.buf, DisplayLine(arg.n + 1)), n |-> arg.n + 1]
  /\ UNCHANGED <<dashVars, ret>>
CallRender ==
  /\ ret = None
  /\ ret' = Some(RenderColumn(arg.buf))
  /\ UNCHANGED <<dashVars, arg>>
NextRender == PushLine \/ CallRender
SpecRender == InitRender /\ [][NextRender]_vars

(* ------------------- Blueprint::update_image_tag ----------------------- *)
\* A YAML content is a sequence of tokens: the space " ", the line feed "\n",
\* "-", "#", ":", "@", the keys "image:" and "name:", and words.
\* \s and [^\s#] of the pattern (blueprint.rs:19)
IsSpace(t) == t \in {" ", "\n"}
IsTagToken(t) == t \notin {" ", "\n", "#"}
\* (?m)^ : the start of the content or of a line
AtLineStart(c, i) == i = 1 \/ c[i - 1] = "\n"
\* \s* from position i: the first position that holds no white space
SkipSpace(c, i) ==
  CHOOSE j \in i..(Len(c) + 1) :
    /\ \A k \in i..(j - 1) : IsSpace(c[k])
    /\ j = Len(c) + 1 \/ ~IsSpace(c[j])
\* [^\s#]+ from position i, greedy: the last position of the run (i - 1: none)
TagEnd(c, i) ==
  CHOOSE j \in (i - 1)..Len(c) :
    /\ \A k \in i..j : IsTagToken(c[k])
    /\ j = Len(c) \/ ~IsTagToken(c[j + 1])
\* the pattern ^(\s*image:\s*<base>)[:@][^\s#]+ at position i: whether it
\* matches, where group 1 ends and where the match ends
MatchAt(c, i, base_image) ==
  LET a == SkipSpace(c, i)
      b == SkipSpace(c, a + 1)
      g == b + Len(base_image) - 1
      e == TagEnd(c, g + 2)
  IN IF /\ AtLineStart(c, i)
        /\ a <= Len(c) /\ c[a] = "image:"
        /\ g + 1 <= Len(c) /\ SubSeq(c, b, g) = base_image
        /\ c[g + 1] \in {":", "@"}
        /\ e >= g + 2
     THEN [found |-> TRUE, group1 |-> g, end |-> e]
     ELSE [found |-> FALSE, group1 |-> 0, end |-> 0]
\* Regex::is_match (line 23)
IsMatch(c, base_image) == \E i \in 1..Len(c) : MatchAt(c, i, base_image).found
\* the first start of a line at or after position i (Len(c) + 1: none)
NextLineStart(c, i) ==
  CHOOSE j \in i..(Len(c) + 1) :
    /\ j = Len(c) + 1 \/ AtLineStart(c, j)
    /\ \A k \in i..(j - 1) : ~AtLineStart(c, k)
\* Regex::replace_all with "$1:<new_tag>" (line 27), from position i on: the
\* matches from left to right, none overlapping another
RECURSIVE ReplaceAll(_, _, _, _)
ReplaceAll(c, i, base_image, new_tag) ==
  IF i > Len(c) THEN <<>>
  ELSE LET n == NextLineStart(c, i)
           m == MatchAt(c, n, base_image)
       IN IF n > Len(c) THEN SubSeq(c, i, Len(c))
          ELSE IF m.found
               THEN SubSeq(c, i, m.group1) \o <<":", new_tag>>
                      \o ReplaceAll(c, m.end + 1, base_image, new_tag)
               ELSE SubSeq(c, i, n) \o ReplaceAll(c, n + 1, base_image, new_tag)

\* lines 14-29: Err when the pattern matches nowhere, else the new content
update_image_tag(content, base_image, new_tag) ==
  IF ~IsMatch(content, base_image)
  THEN [ok |-> FALSE, content |-> <<>>]
  ELSE [ok |-> TRUE, content |-> ReplaceAll(content, 1, base_image, new_tag)]

\* the contents given: up to MaxContentLines lines, each of one of these kinds
BaseImage == <<"reg/", "app">>
NewTag == "v2"
Indent == <<" ", " ">>
YamlLines ==
  { Indent \o <<"image:", " ">> \o BaseImage \o <<":", "v1">>,
    <<" ", "-", " ", "image:", " ">> \o BaseImage \o <<":", "v1">>,
    Indent \o <<"image:", " ">> \o BaseImage \o <<"@", "sha256", ":", "abc">>,
    Indent \o <<"image:", " ">> \o BaseImage \o <<":", "v1", " ", "#", " ", "main">>,
    Indent \o <<"image:", " ">> \o BaseImage,
    Indent \o <<"image:", " ">> \o BaseImage \o <<"-canary", ":", "v1">>,
    Indent \o <<"image:", " ", "haproxy", ":", "2.4">>,
    Indent \o <<"#", " ", "image:", " ">> \o BaseImage \o <<":", "v1">>,
    Indent \o <<"name:", " ", "main">>,
    <<>> }
\* the lines of a content, each ended by a line feed
RECURSIVE JoinLines(_)
JoinLines(lines) ==
  IF lines = <<>> THEN <<>> ELSE Head(lines) \o <<"\n">> \o JoinLines(Tail(lines))
RetagInputs == UNION {[1..n -> YamlLines] : n \in 1..MaxContentLines}
InitRetag == InitPure /\ arg \in RetagInputs
CallRetag ==
  /\ ret = None
  /\ ret' = Some(update_image_tag(JoinLines(arg), BaseImage, NewTag))
  /\ UNCHANGED <<dashVars, arg>>
SpecRetag == InitRetag /\ [][CallRetag]_vars

(* -------------------------- main: the deploy command ------------------- *)
\* The deploy command from its production guard on (main.rs:87-197).  Its
\* state is the record arg: pc, the YAML file on disk, the contents read and
\* computed, what has been run so far; ret is what main returns.
EnvName == "prod"
DeployContents == UNION {[1..n -> YamlLines] : n \in 1..2}
InitDeploy ==
  /\ InitPure
  /\ \E lines \in DeployContents, protected \in BOOLEAN :
       arg = [pc |-> "protect",
              protected |-> protected,
              confirmed |-> FALSE,
              file |-> JoinLines(lines),
              original_content |-> None,
              updated_content |-> None,
              show_unified |-> TRUE,
              chose_apply |-> FALSE,
              apply_ok |-> None,
              dashboard_ok |-> None,
              revert |-> None,
              commit |-> None,
              git |-> None,
              writes |-> 0,
              applies |-> 0,
              dashboards |-> 0,
              commits |-> 0]
\* main returns r
Return(d, r) ==
  /\ arg' = [d EXCEPT !.pc = "done"]
  /\ ret' = Some(r)
Goto(d, pc_) ==
  /\ arg' = [d EXCEPT !.pc = pc_]
  /\ UNCHANGED ret
\* fs::write(path, content): the file holds the content, or the call fails
\* before or after it has truncated the file
WriteFails(d) == {d, [d EXCEPT !.file = <<>>]}
WriteOk(d, content) == [d EXCEPT !.file = content, !.writes = @ + 1]

\* lines 87-97: the production guard
DeployProtectAnyText ==
  /\ ret = None /\ arg.pc = "protect"
  /\ IF ~arg.protected THEN Goto(arg, "read")
     ELSE \/ Return(arg, "Err:confirmation_cancelled")
          \/ \E typed \in {EnvName, "other"} :
               Goto([arg EXCEPT !.confirmed = (typed = EnvName)], "read")
  /\ UNCHANGED dashVars
DeployProtect ==
  /\ ret = None /\ arg.pc = "protect"
  /\ IF ~arg.protected THEN Goto(arg, "read")
     ELSE \/ Return(arg, "Err:confirmation_cancelled")
          \/ \E typed \in {EnvName, "other"} :
               IF typed # EnvName THEN Return(arg, "Err:confirmation_failed")
               ELSE Goto([arg EXCEPT !.confirmed = TRUE], "read")
  /\ UNCHANGED dashVars

\* lines 101-102: fs::read_to_string
DeployRead ==
  /\ ret = None /\ arg.pc = "read"
  /\ \/ Return(arg, "Err:read")
     \/ Goto([arg EXCEPT !.original_content = Some(arg.file)], "update")
  /\ UNCHANGED dashVars

\* lines 104-110: Blueprint::update_image_tag(..)?
UpdateErrIgnored(d, r) ==
  Goto([d EXCEPT !.updated_content = d.original_content], "select")
UpdateErr(d, r) == Return(d, r)
DeployUpdate ==
  /\ ret = None /\ arg.pc = "update"
  /\ LET updated == update_image_tag(arg.original_content[1], BaseImage, NewTag)
     IN IF ~updated.ok THEN UpdateErr(arg, "Err:update_image_tag")
        ELSE Goto([arg EXCEPT !.updated_content = Some(updated.content),
                              !.show_unified = TRUE], "select")
  /\ UNCHANGED dashVars

\* lines 112-136: the diff and the Action prompt, until Apply or Dismiss
DeploySelect ==
  /\ ret = None /\ arg.pc = "select"
  /\ \/ Return(arg, "Err:prompt")
     \/ \E selection \in {"Apply", "Dismiss",
                          IF arg.show_unified THEN "Show full diff"
                          ELSE "Show unified diff"} :
          CASE selection = "Apply" ->
                 \/ \E d \in WriteFails([arg EXCEPT !.chose_apply = TRUE]) :
                      Return(d, "Err:write")
                 \/ Goto(WriteOk([arg EXCEPT !.chose_apply = TRUE],
                                 arg.updated_content[1]), "apply")
            [] selection = "Show full diff" ->
                 Goto([arg EXCEPT !.show_unified = FALSE], "select")
            [] selection = "Show unified diff" ->
                 Goto([arg EXCEPT !.show_unified = TRUE], "select")
            [] OTHER -> Return(arg, "Ok")
  /\ UNCHANGED dashVars

\* lines 148-152 and 168-174: the revert prompt, then main returns err
RevertPromptAlways(d, err) ==
  \/ Return(d, "Err:prompt")
  \/ \E revert \in BOOLEAN :
       LET answered == [d EXCEPT !.revert = Some(revert)]
       IN \/ \E f \in WriteFails(answered) : Return(f, "Err:write")
          \/ Return(WriteOk(answered, d.original_content[1]), err)
RevertPrompt(d, err) ==
  \/ Return(d, "Err:prompt")
  \/ \E revert \in BOOLEAN :
       LET answered == [d EXCEPT !.revert = Some(revert)]
       IN IF revert
          THEN \/ \E f \in WriteFails(answered) : Return(f, "Err:write")
               \/ Return(WriteOk(answered, d.original_content[1]), err)
          ELSE Return(answered, err)

\* lines 140-153: kubectl apply
DeployApply ==
  /\ ret = None /\ arg.pc = "apply"
  /\ \/ Return([arg EXCEPT !.apply_ok = Some(FALSE)], "Err:kubectl_not_run")
     \/ RevertPrompt([arg EXCEPT !.applies = @ + 1, !.apply_ok = Some(FALSE)],
                     "Err:kubectl_apply_failed")
     \/ Goto([arg EXCEPT !.applies = @ + 1, !.apply_ok = Some(TRUE)], "dashboard")
  /\ UNCHANGED dashVars

\* lines 155-175: Dashboard::run
DeployDashboardErrContinues ==
  /\ ret = None /\ arg.pc = "dashboard"
  /\ \E ok \in BOOLEAN :
       Goto([arg EXCEPT !.dashboards = @ + 1, !.dashboard_ok = Some(ok)], "commit")
  /\ UNCHANGED dashVars
DeployDashboard ==
  /\ ret = None /\ arg.pc = "dashboard"
  /\ \/ RevertPrompt([arg EXCEPT !.dashboards = @ + 1, !.dashboard_ok = Some(FALSE)],
                     "Err:dashboard")
     \/ Goto([arg EXCEPT !.dashboards = @ + 1, !.dashboard_ok = Some(TRUE)], "commit")
  /\ UNCHANGED dashVars

\* git.rs:37-82: what Git::commit_and_push can return; is_repo, git add, git
\* commit and git push are run in this order and the first failure ends it
commit_and_push ==
  {"Ok", "Err:not_a_repo", "Err:git_add", "Err:git_commit", "Err:git_push"}

\* lines 177-197: the commit prompt and Git::commit_and_push, whose error is
\* only printed
DeployCommit ==
  /\ ret = None /\ arg.pc = "commit"
  /\ \/ Return(arg, "Err:prompt")
     \/ \E commit \in BOOLEAN :
          IF commit
          THEN \E pushed \in commit_and_push :
                 Return([arg EXCEPT !.commit = Some(TRUE), !.commits = @ + 1,
                                    !.git = Some(pushed)], "Ok")
          ELSE Return([arg EXCEPT !.commit = Some(FALSE)], "Ok")
  /\ UNCHANGED dashVars

NextDeploy ==
  \/ DeployProtect
  \/ DeployRead
  \/ DeployUpdate
  \/ DeploySelect
  \/ DeployApply
  \/ DeployDashboard
  \/ DeployCommit
SpecDeploy == InitDeploy /\ [][NextDeploy]_vars

(* -------------------- Environment::list_services ----------------------- *)
\* serde_yaml::Value: a string, a mapping (its entries in document order) or
\* a sequence
YStr(s) == [t |-> "str", s |-> s, e |-> <<>>]
YMap(entries) == [t |-> "map", s |-> <<>>, e |-> entries]
YSeq(items) == [t |-> "seq", s |-> <<>>, e |-> items]
\* Value::get with a string key, and Value::as_str
YGet(v, key) ==
  IF v.t = "map" /\ \E i \in 1..Len(v.e) : v.e[i][1] = key
  THEN Some(v.e[CHOOSE i \in 1..Len(v.e) :
                  v.e[i][1] = key /\ \A j \in 1..(i - 1) : v.e[j][1] # key][2])
  ELSE None
YAsStr(o) == IF Len(o) > 0 /\ o[1].t = "str" THEN Some(o[1].s) ELSE None

\* lines 133-164: the first mapping, depth first, whose "image" is a string
\* containing "gcr.io" or "pkg.dev"; its image and its "name" (or "default")
RECURSIVE find_gcr_image(_)
RECURSIVE FirstFound(_, _)
find_gcr_image(value) ==
  IF value.t = "map"
  THEN LET img_str == YAsStr(YGet(value, "image"))
           name == YAsStr(YGet(value, "name"))
       IN IF /\ Len(img_str) > 0
             /\ \/ Contains(img_str[1], <<"gcr.io">>)
                \/ Contains(img_str[1], <<"pkg.dev">>)
          THEN Some(<<img_str[1], IF Len(name) > 0 THEN name[1] ELSE "default">>)
          ELSE FirstFound([i \in 1..Len(value.e) |-> value.e[i][2]], 1)
  ELSE IF value.t = "seq" THEN FirstFound(value.e, 1)
  ELSE None
FirstFound(items, i) ==
  IF i > Len(items) THEN None
  ELSE IF Len(find_gcr_image(items[i])) > 0 THEN find_gcr_image(items[i])
  ELSE FirstFound(items, i + 1)

\* line 97
deployment_only == {"Deployment"}
microservice_kinds == {"Deployment", "StatefulSet", "DaemonSet", "Job", "CronJob"}

\* lines 92-131: the service a document describes, None when it describes none
extract_gcr_service(resource, yaml_path) ==
  LET kind == YAsStr(YGet(resource, "kind"))
      metadata == YGet(resource, "metadata")
      name == IF Len(metadata) > 0 THEN YAsStr(YGet(metadata[1], "name")) ELSE None
      spec == YGet(resource, "spec")
      found == IF Len(spec) > 0 THEN find_gcr_image(spec[1]) ELSE None
      sel == IF Len(spec) > 0 THEN YGet(spec[1], "selector") ELSE None
      match_labels == IF Len(sel) > 0 THEN YGet(sel[1], "matchLabels") ELSE None
      app == IF Len(match_labels) > 0 THEN YAsStr(YGet(match_labels[1], "app")) ELSE None
  IN IF Len(kind) = 0 \/ Len(metadata) = 0 \/ Len(name) = 0 THEN None
     ELSE IF kind[1] \notin microservice_kinds THEN None
     ELSE IF Len(found) = 0 THEN None
     ELSE Some([name |-> name[1],
                image_path |-> found[1][1],
                container_name |-> found[1][2],
                yaml_path |-> yaml_path,
                namespace |-> YAsStr(YGet(metadata[1], "namespace")),
                selector |-> IF Len(app) > 0 THEN Some(<<"app=", app[1]>>) ELSE None])

\* a path under repo_root: its directory and its file name, each a sequence of
\* characters or words.  Lines 50-55: entries whose name starts with "." are
\* not walked into; lines 60-61: the extension decides
Visible(path) == path.dir[1] # "." /\ path.file[1] # "."
Extension(file) ==
  IF \E i \in 2..Len(file) : file[i] = "." THEN Some(AfterLast(file, ".")) ELSE None
IsYamlFile(path) == Extension(path.file) \in {Some(<<"yaml">>), Some(<<"yml">>)}

\* the shapes of the documents given: kind, metadata.name, metadata.namespace,
\* spec.selector.matchLabels.app, and the containers of the pod template
ImgGcr == <<"gcr.io", "/", "p/app:v1">>
ImgPkg == <<"europe-docker.", "pkg.dev", "/", "p/app:v1">>
ImgHub == <<"nginx:latest">>
ImgMirror == <<"mirror.local", "/", "gcr.io", "/", "app:v1">>
Container(name, image) == [name |-> name, image |-> image]
ContainerLists ==
  { <<Container(Some("main"), ImgGcr)>>,
    <<Container(None, ImgGcr)>>,
    <<Container(Some("main"), ImgHub)>>,
    <<Container(Some("proxy"), ImgHub), Container(Some("main"), ImgPkg)>>,
    <<Container(Some("main"), ImgGcr), Container(Some("side"), ImgPkg)>>,
    <<Container(Some("main"), ImgMirror)>> }
DocShapes ==
  [kind : {"Deployment", "StatefulSet", "DaemonSet", "Job", "CronJob", "Service"},
   name : {None, Some("web")},
   namespace : {None, Some("test-ns")},
   app : {None, Some("web-app")},
   containers : ContainerLists]
\* the document of a shape, as serde_yaml reads it
Entry(key, opt) == IF Len(opt) > 0 THEN << <<key, YStr(opt[1])>> >> ELSE <<>>
ContainerTree(c) == YMap(Entry("name", c.name) \o << <<"image", YStr(c.image)>> >>)
DocTree(d) ==
  YMap(<< <<"apiVersion", YStr("apps/v1")>>,
          <<"kind", YStr(d.kind)>>,
          <<"metadata", YMap(Entry("name", d.name) \o Entry("namespace", d.namespace))>>,
          <<"spec",
            YMap((IF Len(d.app) > 0
                  THEN << <<"selector",
                           YMap(<< <<"matchLabels", YMap(Entry("app", d.app))>> >>)>> >>
                  ELSE <<>>)
                 \o << <<"template",
                         YMap(<< <<"spec",
                                  YMap(<< <<"containers",
                                           YSeq([i \in 1..Len(d.containers) |->
                                                   ContainerTree(d.containers[i])])>>
                                       >>)>> >>)>> >>)>> >>)

\* lines 42-86: the set of services of the documents of the YAML files walked
Walked(repo) ==
  {i \in 1..Len(repo.files) :
     Visible(repo.files[i].path) /\ IsYamlFile(repo.files[i].path)}
Services(repo) ==
  IF ~repo.exists THEN {}
  ELSE {src[1] : src \in
          UNION {{extract_gcr_service(DocTree(repo.files[i].docs[j]), repo.files[i].path) :
                    j \in 1..Len(repo.files[i].docs)} : i \in Walked(repo)} \ {None}}
\* line 88: sort_by the name, over the HashSet's iteration order, which is
\* any order: services of one name may come out either way round
NameRank(name) == IF name = "api" THEN 1 ELSE IF name = "web" THEN 2 ELSE 3
SortedByName(out) ==
  \A i \in 1..Len(out) : \A j \in i..Len(out) :
     NameRank(out[i].name) <= NameRank(out[j].name)
list_services(repo) ==
  {out \in [1..Cardinality(Services(repo)) -> Services(repo)] :
     /\ \A i \in DOMAIN out : \A j \in DOMAIN out : i # j => out[i] # out[j]
     /\ SortedByName(out)}

\* the repositories given: every shape of document alone in one file under
\* every kind of path, and two files of several documents
PathDeploy == [dir |-> <<"svc">>, file |-> <<"deploy", ".", "yaml">>]
PathSts == [dir |-> <<"svc">>, file |-> <<"sts", ".", "yml">>]
Paths ==
  { PathDeploy, PathSts,
    [dir |-> <<"svc">>, file |-> <<"deploy", ".", "json">>],
    [dir |-> <<"svc">>, file |-> <<"README">>],
    [dir |-> <<".", "git">>, file |-> <<"deploy", ".", "yaml">>],
    [dir |-> <<"svc">>, file |-> <<".", "deploy", ".", "yaml">>] }
File(path, docs) == [path |-> path, docs |-> docs]
SampleDocs ==
  { [kind |-> "Deployment", name |-> Some("web"), namespace |-> Some("test-ns"),
     app |-> Some("web-app"), containers |-> <<Container(Some("main"), ImgGcr)>>],
    [kind |-> "StatefulSet", name |-> Some("api"), namespace |-> None,
     app |-> None, containers |-> <<Container(Some("main"), ImgPkg)>>],
    [kind |-> "Service", name |-> Some("web"), namespace |-> None,
     app |-> None, containers |-> <<Container(Some("main"), ImgGcr)>>],
    [kind |-> "Deployment", name |-> Some("hub"), namespace |-> None,
     app |-> Some("web-app"), containers |-> <<Container(Some("main"), ImgHub)>>] }
Repos ==
  {[exists |-> FALSE, files |-> <<>>], [exists |-> TRUE, files |-> <<>>]}
  \cup {[exists |-> TRUE, files |-> <<File(path, <<d>>)>>] :
          path \in Paths, d \in DocShapes}
  \cup {[exists |-> TRUE, files |-> <<File(PathDeploy, <<d1, d2>>), File(PathSts, <<d3>>)>>] :
          d1 \in SampleDocs, d2 \in SampleDocs, d3 \in SampleDocs}
InitList == InitPure /\ arg \in Repos
CallList ==
  /\ ret = None
  /\ \E out \in list_services(arg) : ret' = Some(out)
  /\ UNCHANGED <<arg, dashVars>>
SpecList == InitList /\ [][CallList]_vars

(* ------------------------------ properties ----------------------------- *)
Min(a, b) == IF a < b THEN a ELSE b
\* the last n entries of s
LastN(s, n) == SubSeq(s, Len(s) - n + 1, Len(s))
FormatAll(s) == [i \in 1..Len(s) |-> format_log_line(s[i])]
Range(s) == {s[i] : i \in 1..Len(s)}

\* failures of run before run_loop is entered, and while the terminal is restored
SetupErrs == {"Err:enable_raw_mode", "Err:enter_alt", "Err:terminal_new"}
ClientErrs == {"Err:kubeconfig", "Err:client"}
RestoreErrs == {"Err:disable_raw_mode", "Err:leave_alt", "Err:show_cursor"}
EventErrs == {"Err:poll", "Err:read"}

\* every record sent so far: still in the channel, or received
SentRecords == log_chan \o recv_old \o recv_new
ErrorsOf(p) ==
  Cardinality({i \in 1..Len(SentRecords) :
                 /\ SentRecords[i].pod_name = p
                 /\ SentRecords[i].level = Some(<<"ERROR">>)})
\* the position in p's stream of the line a record was built from
StreamPos(log) ==
  CHOOSE k \in 1..stream_len[log.pod_name] :
    ParseLine(log.pod_name, StreamLine(log.pod_name, k), log.is_new) = log
IsStreamLine(log) ==
  \E k \in 1..stream_len[log.pod_name] :
    ParseLine(log.pod_name, StreamLine(log.pod_name, k), log.is_new) = log

\* C1: a Tail Worker is spawned at most once per pod name, over any sequence
\* of discovery ticks, successful or failed.
C1_SpawnAtMostOnce == \A p \in AllPods : spawn_count[p] <= 1
\* PodB was spawned as New and a later tick lists it as Running again, now Old
C1_Witness ==
  /\ spawn_count[PodB] = 1
  /\ workers[PodB].is_new
  /\ \E i \in 1..Len(pods) :
       pods[i] = [name |-> PodB, status |-> "Running", is_new |-> FALSE]

\* C2: whenever run returns after the terminal was acquired, on every exit
\* path, raw mode has been disabled and the alternate screen has been left.
C2_TerminalReleasedOnReturn ==
  (pc = "done" /\ result \notin SetupErrs) => (~raw_mode /\ ~alt_screen)

\* C3: when loading the kubeconfig or building the client fails, run returns
\* the error and the terminal was never put into raw mode.
C3_NoRawModeOnClientFailure ==
  (pc = "done" /\ result \in ClientErrs) => ~raw_mode

\* C4: a Tail Worker whose stream failed, on opening or on reading, has sent
\* exactly one ERROR record for its pod and has terminated.
C4_StreamFailureSendsOneError ==
  \A p \in DOMAIN cluster :
    workers[p].failed # "no" => (workers[p].st = "done" /\ ErrorsOf(p) = 1)

\* C5: at every point where the buffers are rendered, each generation buffer
\* holds at most 100 entries.
C5_BuffersBounded ==
  pc = "draw" => (Len(old_logs) <= LogCap /\ Len(new_logs) <= LogCap)
\* a full buffer about to be drawn after more than 100 records were received
C5_Witness == pc = "draw" /\ Len(old_logs) = LogCap /\ Len(recv_old) > LogCap

\* C6: after n records of a generation were received, its buffer is the
\* formatted lines of the last min(n, 100) of them, in receive order.
C6_BufferIsLastReceived ==
  /\ old_logs = FormatAll(LastN(recv_old, Min(Len(recv_old), LogCap)))
  /\ new_logs = FormatAll(LastN(recv_new, Min(Len(recv_new), LogCap)))
\* 101 records received: 100 entries, the first one gone, the 101st last
C6_Witness ==
  /\ Len(recv_old) = LogCap + 1
  /\ Len(old_logs) = LogCap
  /\ format_log_line(recv_old[1]) \notin Range(old_logs)
  /\ old_logs[LogCap] = format_log_line(recv_old[LogCap + 1])

\* C7: a discovery tick whose list call fails changes nothing: pod list,
\* TailedSet and tail tasks are as before, nothing is returned to the caller
\* and the loop goes on to the drain.
C7_ListFailureChangesNothing ==
  [][(pc = "list" /\ last_list' = "err") =>
       /\ pods' = pods
       /\ tailed_pods' = tailed_pods
       /\ workers' = workers
       /\ spawn_count' = spawn_count
       /\ result' = "pending"
       /\ pc' = "drain"]_vars
\* a failed tick that found a pod list and a TailedSet to keep
C7_Witness ==
  pc = "drain" /\ last_list = "err" /\ pods # <<>> /\ tailed_pods # {}

\* C8 as amended: when the quit key is the event the input-poll step reads and
\* neither event::poll nor event::read fails, the loop ends in that step and
\* run_loop returns success.
QuitPending == \E i \in 1..Len(events) : events[i] = "key_q"
C8_QuitReadReturnsOk ==
  [][(pc = "poll" /\ events # <<>> /\ Head(events) = "key_q"
        /\ pc' # "poll" /\ result' \notin EventErrs)
     => (pc' = "done" /\ result' \in {"Ok"} \cup RestoreErrs)]_vars
\* C8 as claimed: a quit key that has arrived makes the next input-poll step
\* end the loop with success (poll and read not failing).
C8_QuitWithinOnePoll ==
  [][(pc = "poll" /\ QuitPending /\ pc' # "poll" /\ result' \notin EventErrs)
     => (pc' = "done" /\ result' \in {"Ok"} \cup RestoreErrs)]_vars
\* the loop has returned success on the quit key
C8_Witness == pc = "done" /\ result = "Ok" /\ tailed_pods # {}

\* C9 as amended: run returns an error only for a failure before the loop, a
\* draw failure, a terminal event poll/read failure or a failure to restore
\* the terminal; a pod list failure and a log stream failure are absorbed.
C9_ErrorSources ==
  /\ [](pc = "done" =>
          result \in {"Ok", "Err:draw"} \cup SetupErrs \cup ClientErrs
                       \cup EventErrs \cup RestoreErrs)
  /\ [][(pc = "list" /\ last_list' = "err") =>
          (pc' = "drain" /\ result' = "pending")]_vars
  /\ [][(\E p \in AllPods : workers'[p].failed # workers[p].failed) =>
          UNCHANGED <<pc, result>>]_vars
\* C9 as claimed: a terminal event poll/read failure is never returned
C9_EventFailureAbsorbed == pc = "done" => result \notin EventErrs
\* an event failure was returned after a log stream failure was absorbed
C9_Witness ==
  /\ pc = "done"
  /\ result \in EventErrs
  /\ \E p \in AllPods : workers[p].failed # "no"

\* C10: two lines of the same pod's stream that are both in a generation
\* buffer are there in the order in which the stream delivered them.
InStreamOrder(buf, recv) ==
  LET src == LastN(recv, Len(buf))
  IN /\ Len(buf) <= Len(recv)
     /\ \A i \in 1..Len(buf) : buf[i] = format_log_line(src[i])
     /\ \A i, j \in 1..Len(buf) :
          (i < j /\ src[i].pod_name = src[j].pod_name
             /\ IsStreamLine(src[i]) /\ IsStreamLine(src[j]))
          => StreamPos(src[i]) < StreamPos(src[j])
C10_PerPodOrder ==
  InStreamOrder(old_logs, recv_old) /\ InStreamOrder(new_logs, recv_new)
\* both lines of PodA in the New buffer with PodB's line between them
C10_Witness ==
  /\ Len(new_logs) = 3
  /\ recv_new[1].pod_name = PodA
  /\ recv_new[2].pod_name = PodB
  /\ recv_new[3].pod_name = PodA

\* C11: after every successful discovery tick, every pod of the returned list
\* whose phase is Running is in the TailedSet and has had a tail task spawned
\* for it; also a pod first listed in another phase and listed Running later.
ListedOk == last_list \in {"ok", "ok_late"}
C11_RunningPodsAreTailed ==
  ListedOk =>
    \A i \in 1..Len(pods) :
       pods[i].status = "Running" =>
         /\ pods[i].name \in tailed_pods
         /\ spawn_count[pods[i].name] >= 1
         /\ workers[pods[i].name].st # "none"
\* PodB, held as Pending in the roster, is now listed as Running: it has just
\* been given its tail task
C11_Witness ==
  /\ last_list = "ok_late"
  /\ \E i \in 1..Len(pods) : pods[i].name = PodB /\ pods[i].status = "Running"
  /\ PodB \in tailed_pods
  /\ spawn_count[PodB] = 1
  /\ workers[PodB].st = "opening"

\* C12: the generation is a function of (first container's image, tag) alone:
\* New exactly when the tag occurs in the image as a substring, Old otherwise;
\* image "gcr.io/proj/app:v2" with tag "v2" is New.
IsSubstring(t, s) == \E i \in 0..Len(s), j \in 0..Len(s) : SubSeq(s, i + 1, j) = t
C12_NewIffTagIsSubstring ==
  ret # None =>
    /\ ret[1] = (arg.image # None /\ IsSubstring(arg.tag, arg.image[1]))
    /\ (arg.image = Some(ScenarioAImage) /\ arg.tag = Tag) => ret[1]
\* Scenario A has been classified as New
C12_Witness ==
  arg = [image |-> Some(ScenarioAImage), tag |-> Tag] /\ ret = Some(TRUE)

\* C13: log parsing fails for no line. For the empty line, malformed JSON and
\* JSON that is not an object the record's message is the trimmed raw line and
\* its severity and timestamp are absent.
IsTrimOf(t, s) ==
  \E i \in 0..Len(s), j \in 0..Len(s) :
     /\ i <= j
     /\ t = SubSeq(s, i + 1, j)
     /\ \A k \in 1..i : s[k] = " "
     /\ \A k \in (j + 1)..Len(s) : s[k] = " "
     /\ i < j => (s[i + 1] # " " /\ s[j] # " ")
IsObjectText(text) == Len(FromStr(text)) > 0 /\ FromStr(text)[1].kind = "obj"
C13_ParsingNeverFails ==
  (Len(ret) > 0 /\ ~IsObjectText(arg)) =>
    /\ IsTrimOf(ret[1].content, arg)
    /\ ret[1].level = None
    /\ ret[1].timestamp = None
\* an object that is not closed has been sent as its raw text
C13_Witness ==
  /\ arg = UnclosedLine
  /\ Len(ret) > 0
  /\ ret[1].content = UnclosedLine
  /\ ret[1].level = None

\* C14 as amended: for a line that is a JSON object each field is decided by
\* the first present key of its chain: when that key holds a string the field
\* is that string (the severity upper-cased), otherwise the field is absent
\* (the message: the trimmed raw line), as it is when no key is present.
RECURSIVE Lookup(_, _)
Lookup(v, path) ==
  IF v.kind # "obj" \/ <<Head(path)>> \notin DOMAIN v.f THEN None
  ELSE IF Len(path) = 1 THEN Some(v.f[<<Head(path)>>])
  ELSE Lookup(v.f[<<Head(path)>>], Tail(path))
RECURSIVE FirstPresent(_, _)
FirstPresent(v, paths) ==
  IF paths = <<>> THEN None
  ELSE IF Len(Lookup(v, Head(paths))) > 0 THEN Lookup(v, Head(paths))
  ELSE FirstPresent(v, Tail(paths))
SeverityKeys == << <<"severity">>, <<"level">> >>
TimestampKeys == << <<"timestamp">>, <<"time">> >>
MessageKeys == << <<"message">>, <<"msg">>, <<"textPayload">>, <<"fields", "message">> >>
IsStr(o) == Len(o) > 0 /\ o[1].kind = "str"
C14_FirstPresentStringDecides ==
  (Len(ret) > 0 /\ IsObjectText(arg)) =>
    LET v == FromStr(arg)[1]
        sev == FirstPresent(v, SeverityKeys)
        ts == FirstPresent(v, TimestampKeys)
        msg == FirstPresent(v, MessageKeys)
    IN /\ ret[1].level = IF IsStr(sev) THEN Some(ToUpper(sev[1].s)) ELSE None
       /\ ret[1].timestamp = IF IsStr(ts) THEN Some(ts[1].s) ELSE None
       /\ IF IsStr(msg) THEN ret[1].content = msg[1].s
          ELSE IsTrimOf(ret[1].content, arg)
\* C14 as claimed: each field is the value of the first present key of its
\* chain, whatever that value is.
C14_FirstPresentValue ==
  (Len(ret) > 0 /\ IsObjectText(arg)) =>
    LET v == FromStr(arg)[1]
        sev == FirstPresent(v, SeverityKeys)
        ts == FirstPresent(v, TimestampKeys)
        msg == FirstPresent(v, MessageKeys)
    IN /\ ret[1].level = IF Len(sev) > 0 THEN Some(ToUpper(sev[1].s)) ELSE None
       /\ ret[1].timestamp = IF Len(ts) > 0 THEN Some(ts[1].s) ELSE None
       /\ IF Len(msg) > 0 THEN ret[1].content = msg[1].s
          ELSE IsTrimOf(ret[1].content, arg)
\* "level", "time" and "fields.message" decided the record: the keys ahead of
\* them are absent
C14_Witness ==
  /\ arg = ObjectText(<<[k \in {TopKeys[i] : i \in 1..Len(TopKeys)} |->
                           IF k \in {"level", "time"} THEN "str" ELSE "-"],
                        "str_message">>)
  /\ Len(ret) > 0
  /\ ret[1].level = Some(<<"WARN">>)
  /\ ret[1].timestamp = Some(<<"4", "T", "5", ".", "6">>)
  /\ ret[1].content = <<"m4">>

\* C15: a rendered log column shows the last min(50, length) entries of its
\* buffer, most recent first: its first entry is the entry appended last, and
\* it never has more than 50 entries.
C15_ColumnShowsLastFifty ==
  Len(ret) > 0 =>
    LET buf == arg.buf
        col == ret[1]
    IN /\ Len(col) = Min(RenderCap, Len(buf))
       /\ Len(col) <= RenderCap
       /\ \A i \in 1..Len(col) : col[i] = buf[Len(buf) + 1 - i]
       /\ arg.n > 0 => col[1] = DisplayLine(arg.n)
\* a full buffer that has lost its oldest entry is rendered: 50 entries are
\* shown, the newest on top
C15_Witness ==
  /\ arg.n = LogCap + 1
  /\ Len(ret) > 0
  /\ Len(ret[1]) = RenderCap
  /\ ret[1][1] = DisplayLine(LogCap + 1)
  /\ ret[1][RenderCap] = DisplayLine(LogCap + 2 - RenderCap)

\* C16: a Tail Worker that sends after the receiving end of the channel has
\* gone neither panics nor reports an error: the record is discarded, the
\* worker goes on, and no other worker, nor what run returned, is affected.
C16_SendAfterDropIsSilent ==
  /\ [](\A p \in AllPods : workers[p].st # "panicked")
  /\ [][(~rx_alive /\ lost' # lost) =>
          /\ log_chan' = log_chan
          /\ UNCHANGED <<pc, result, termVars, sessionVars>>
          /\ \E p \in AllPods :
               /\ lost' = lost \cup {p}
               /\ workers'[p].st \in {"reading", "done"}
               /\ \A q \in AllPods \ {p} : workers'[q] = workers[q]]_vars
\* PodA's line was sent after the drop and discarded; PodA's task reads on and
\* PodB's task is still opening its stream
C16_Witness ==
  /\ ~rx_alive
  /\ lost = {PodA}
  /\ workers[PodA].st = "reading"
  /\ workers[PodA].k = 1
  /\ workers[PodB].st = "opening"

\* C17: a log-stream failure of one Tail Worker, on opening or on reading, is
\* isolated: no other worker, the pod list, the TailedSet and the loop are
\* unchanged, and its only effect is the one error record of that pod.
C17_FailureIsolatedWithOneRecord ==
  [][\A p \in AllPods :
       workers'[p].failed # workers[p].failed =>
         /\ \A q \in AllPods \ {p} : workers'[q] = workers[q]
         /\ UNCHANGED <<pc, result, pods, tailed_pods, old_logs, new_logs>>
         /\ log_chan' = Append(log_chan, ErrorRecord(p, workers[p].is_new))]_vars

\* C18: update_image_tag replaces the tag (or digest) of every "image:" line
\* whose image is the base image by the new tag, and leaves every other line
\* unchanged, the "image:" lines of other containers among them.
\* The ways to read a line as <key part> <base image> <: or @> <tag> <rest>,
\* the key part being the indentation, an optional list dash and "image:"
StartsWith(s, prefix) == Len(prefix) <= Len(s) /\ SubSeq(s, 1, Len(prefix)) = prefix
IsImageKeyOfBase(pre) ==
  LET body == TrimStart(pre)
      item == IF StartsWith(body, <<"-", " ">>)
              THEN TrimStart(SubSeq(body, 3, Len(body))) ELSE body
  IN /\ Len(item) > 0
     /\ item[1] = "image:"
     /\ TrimStart(Tail(item)) = BaseImage
ImageLineParts(line) ==
  {part \in [pre : 1..Len(line), tag : 1..Len(line)] :
     /\ part.pre + 2 <= part.tag
     /\ IsImageKeyOfBase(SubSeq(line, 1, part.pre))
     /\ line[part.pre + 1] \in {":", "@"}
     /\ \A k \in (part.pre + 2)..part.tag : line[k] \notin {" ", "#"}
     /\ part.tag = Len(line) \/ line[part.tag + 1] \in {" ", "#"}}
Retagged(line) ==
  IF ImageLineParts(line) = {} THEN line
  ELSE LET part == CHOOSE part \in ImageLineParts(line) : TRUE
       IN SubSeq(line, 1, part.pre) \o <<":", NewTag>>
            \o SubSeq(line, part.tag + 1, Len(line))
C18_EveryImageLineOfBaseRetagged ==
  (Len(ret) > 0 /\ \E i \in 1..Len(arg) : ImageLineParts(arg[i]) # {}) =>
    /\ ret[1].ok
    /\ ret[1].content = JoinLines([i \in 1..Len(arg) |-> Retagged(arg[i])])

\* what a document is said to yield: the workload kinds, the first container
\* the registry test accepts, and the fields read off the document
WorkloadKinds == {"Deployment", "StatefulSet", "DaemonSet", "Job", "CronJob"}
OnGoogleRegistry(image) ==
  \E i \in 2..Len(image) :
     /\ image[i] = "/"
     /\ \A j \in 1..(i - 1) : image[j] # "/"
     /\ image[i - 1] \in {"gcr.io", "pkg.dev"}
MentionsGoogleRegistry(image) ==
  \E i \in 1..Len(image) : image[i] \in {"gcr.io", "pkg.dev"}
Accepted(d, Test(_)) == {i \in 1..Len(d.containers) : Test(d.containers[i].image)}
SourceOf(d, path, Test(_)) ==
  LET c == d.containers[CHOOSE i \in Accepted(d, Test) :
                          \A j \in Accepted(d, Test) : i <= j]
  IN [name |-> IF d.name = None THEN "" ELSE d.name[1],
      image_path |-> c.image,
      container_name |-> IF c.name = None THEN "default" ELSE c.name[1],
      yaml_path |-> path,
      namespace |-> d.namespace,
      selector |-> IF d.app = None THEN None ELSE Some(<<"app=", d.app[1]>>)]
YamlFiles(repo) ==
  {i \in 1..Len(repo.files) :
     /\ repo.exists
     /\ repo.files[i].path.dir[1] # "."
     /\ repo.files[i].path.file[1] # "."
     /\ Len(repo.files[i].path.file) = 3
     /\ repo.files[i].path.file[2] = "."
     /\ repo.files[i].path.file[3] \in {"yaml", "yml"}}
Returned == {ret[1][i] : i \in 1..Len(ret[1])}

\* C19 (as stated): the services returned are exactly the documents of a
\* workload kind with a container image on gcr.io or pkg.dev, each with its
\* image path, container name, YAML path, namespace and app selector
C19_ExactlyGcrWorkloads ==
  (arg \in Repos /\ ret # None) =>
     Returned =
       UNION {{SourceOf(arg.files[i].docs[j], arg.files[i].path, OnGoogleRegistry) :
                 j \in {j \in 1..Len(arg.files[i].docs) :
                          /\ arg.files[i].docs[j].kind \in WorkloadKinds
                          /\ Accepted(arg.files[i].docs[j], OnGoogleRegistry) # {}}} :
              i \in YamlFiles(arg)}

\* C19 (amended): the services returned, each once and in name order, are
\* exactly the documents of a workload kind that have a metadata.name and a
\* container whose image string mentions gcr.io or pkg.dev anywhere
C19_NamedWorkloadsMentioningGcr ==
  (arg \in Repos /\ ret # None) =>
     /\ Returned =
          UNION {{SourceOf(arg.files[i].docs[j], arg.files[i].path, MentionsGoogleRegistry) :
                    j \in {j \in 1..Len(arg.files[i].docs) :
                             /\ arg.files[i].docs[j].kind \in WorkloadKinds
                             /\ arg.files[i].docs[j].name # None
                             /\ Accepted(arg.files[i].docs[j], MentionsGoogleRegistry) # {}}} :
                 i \in YamlFiles(arg)}
     /\ Cardinality(Returned) = Len(ret[1])
     /\ \A i \in 1..Len(ret[1]) : \A j \in i..Len(ret[1]) :
          ret[1][i].name = ret[1][j].name \/ ret[1][i].name = "api"
C19_Witness ==
  /\ arg \in Repos
  /\ ret # None
  /\ Len(ret[1]) = 3
  /\ ret[1][1].name = "api"
  /\ ret[1][2].yaml_path # ret[1][3].yaml_path

\* C20: the drain of an iteration completes, and the draw is reached, even
\* while the tail tasks keep sending records
C20_DrainReachesDraw == (pc = "drain") ~> (pc = "draw")

\* C21: a successful discovery tick replaces the pod list by exactly the pods
\* of the answer, in its order, and spawns exactly one tail task per listed
\* pod whose phase is Running and whose name was not in the TailedSet before.
RosterOf(items) ==
  [i \in 1..Len(items) |->
     [name |-> items[i].name,
      status |-> IF items[i].phase = None THEN "Unknown" ELSE items[i].phase[1],
      is_new |-> items[i].image # None /\ IsSubstring(Tag, items[i].image[1])]]
NewlyRunning(items) ==
  {items[i].name : i \in {i \in 1..Len(items) : items[i].phase = Some("Running")}}
     \ tailed_pods
C21_TickReplacesAndSpawns ==
  [][(pc = "list" /\ last_list' \in {"ok", "ok_late"}) =>
       \E choice \in ListChoices :
          /\ pods' = RosterOf(ItemsOf(choice))
          /\ \A p \in AllPods :
               IF p \in NewlyRunning(ItemsOf(choice))
               THEN /\ spawn_count'[p] = spawn_count[p] + 1
                    /\ workers'[p].st = "opening"
                    /\ workers[p].st = "none"
               ELSE /\ spawn_count'[p] = spawn_count[p]
                    /\ workers'[p] = workers[p]]_vars
\* the tick listed PodB alone, Running for the first time: the roster, which
\* held PodA, holds PodB only, and PodB alone was given a task in this tick
C21_Witness ==
  /\ pc = "drain"
  /\ ListedOk
  /\ PodA \in tailed_pods
  /\ workers[PodA].st \in {"reading", "done"}
  /\ Len(pods) = 1
  /\ pods[1].name = PodB
  /\ workers[PodB].st = "opening"

\* C22: the TailedSet only grows: no step removes a pod name from it, not the
\* end of the pod's tail task, not a tick that no longer lists the pod, not a
\* failed list call.
C22_TailedSetOnlyGrows == [][tailed_pods \subseteq tailed_pods']_vars
\* PodA is still in the TailedSet after its task has ended, a tick has listed
\* no such pod and the list call of this tick has failed
C22_Witness ==
  /\ last_list = "err"
  /\ PodA \in tailed_pods
  /\ workers[PodA].st = "done"
  /\ \A i \in 1..Len(pods) : pods[i].name # PodA

\* C23: the drain never waits: with the channel empty it can end at once, it
\* ends only on observing the channel empty, and until then every record that
\* leaves the channel is the oldest one and is received into a buffer; so the
\* records that were in the channel when the drain started are in a buffer
\* when it ends.
Received == recv_old \o recv_new
C23_DrainNeverWaits ==
  /\ []((pc = "drain" /\ log_chan = <<>>) => ENABLED DrainEmpty)
  /\ [][pc = "drain" =>
          /\ pc' \in {"drain", "draw"}
          /\ pc' = "draw" => (log_chan = <<>> /\ log_chan' = <<>>)
          /\ pc' = "drain" =>
               \/ log_chan' = log_chan /\ UNCHANGED <<old_logs, new_logs, histVars>>
               \/ /\ log_chan' # <<>>
                  /\ log_chan' = Append(log_chan, Last(log_chan'))
                  /\ UNCHANGED <<old_logs, new_logs, histVars>>
               \/ /\ log_chan # <<>>
                  /\ log_chan' = Tail(log_chan)
                  /\ Received' \in {Append(recv_old, Head(log_chan)) \o recv_new,
                                    recv_old \o Append(recv_new, Head(log_chan))}
                  /\ Len(old_logs') + Len(new_logs')
                       = Len(old_logs) + Len(new_logs) + 1]_vars
\* a drain that started with both pods' records in the channel has ended:
\* both are in their buffers and the channel is empty
C23_Witness ==
  /\ pc = "draw"
  /\ log_chan = <<>>
  /\ Len(old_logs) = 1
  /\ Len(new_logs) = 1
  /\ workers[PodA].k = 1

\* C24: a record received from the channel is appended, once, to the buffer
\* of its own generation (new_logs when it is New, old_logs otherwise), and
\* the buffer of the other generation is left as it was.
Appended(buf, line) ==
  IF Len(buf) < LogCap THEN buf \o <<line>> ELSE SubSeq(buf, 2, Len(buf)) \o <<line>>
C24_ReceivedIntoOwnBuffer ==
  [][(pc = "drain" /\ log_chan # <<>> /\ log_chan' = Tail(log_chan)) =>
       IF Head(log_chan).is_new
       THEN /\ new_logs' = Appended(new_logs, format_log_line(Head(log_chan)))
            /\ old_logs' = old_logs
       ELSE /\ old_logs' = Appended(old_logs, format_log_line(Head(log_chan)))
            /\ new_logs' = new_logs]_vars
\* PodA's New record has just been received while the Old buffer held PodB's
C24_Witness ==
  /\ pc = "drain"
  /\ Len(recv_old) = 1
  /\ Len(recv_new) = 1
  /\ recv_old[1].pod_name = PodB
  /\ recv_new[1].pod_name = PodA
  /\ new_logs = <<format_log_line(recv_new[1])>>
  /\ old_logs = <<format_log_line(recv_old[1])>>

\* C25: the generation of a tail task is fixed when it is spawned: it is the
\* classification of its pod in the tick that spawned it, it never changes,
\* and every record the task sends carries it, whatever later ticks say.
ListedAs(roster, p) ==
  {roster[i].is_new : i \in {i \in 1..Len(roster) : roster[i].name = p}}
C25_GenerationFrozenAtSpawn ==
  /\ [][\A p \in AllPods :
          /\ (workers[p].st = "none" /\ workers'[p].st # "none")
               => ListedAs(pods', p) = {workers'[p].is_new}
          /\ workers[p].st # "none" => workers'[p].is_new = workers[p].is_new]_vars
  /\ [](\A i \in 1..Len(SentRecords) :
          SentRecords[i].is_new = workers[SentRecords[i].pod_name].is_new)
\* PodB's task was spawned as New; a tick has just listed PodB as Old, and
\* the last line of the task's stream is in the channel as New
C25_Witness ==
  /\ workers[PodB].is_new
  /\ ListedAs(pods, PodB) = {FALSE}
  /\ pc = "drain"
  /\ ListedOk
  /\ log_chan # <<>>
  /\ Last(log_chan).is_new
  /\ workers[PodB].k = MaxLines
  /\ Len(recv_new) = 1

\* C26: the pod list and the TailedSet change only in a discovery tick, the
\* buffers only when the drain receives a record; a step of a tail task
\* leaves all four as they are and at most adds a record to the channel.
C26_OnlyTheLoopWritesItsState ==
  [][/\ (pods' # pods \/ tailed_pods' # tailed_pods)
          => (pc = "list" /\ pc' = "drain")
     /\ (old_logs' # old_logs \/ new_logs' # new_logs)
          => (pc = "drain" /\ pc' = "drain" /\ log_chan # <<>>
                /\ log_chan' = Tail(log_chan))
     /\ (workers' # workers /\ pc' = pc)
          => /\ UNCHANGED <<pods, tailed_pods, old_logs, new_logs>>
             /\ \/ log_chan' = log_chan
                \/ log_chan' # <<>> /\ log_chan' = Append(log_chan, Last(log_chan'))]_vars
\* both tail tasks have sent their record while the loop waited for input:
\* the roster lists both pods, the buffers are still empty
C26_Witness ==
  /\ pc = "poll"
  /\ Len(log_chan) = 2
  /\ workers[PodA].k = 1
  /\ workers[PodB].st = "done"
  /\ Len(pods) = 2
  /\ tailed_pods = {PodA, PodB}
  /\ old_logs = <<>>
  /\ new_logs = <<>>

\* C27: a tail task ends when its stream ends or after the one error record
\* of a stream that could not be opened, and it is never replaced: once the
\* task of a pod name has ended, no tick spawns another one for the name and
\* no further record of that pod is sent, also while the pod is listed Running.
SentBy(p) ==
  Cardinality({i \in 1..Len(SentRecords) : SentRecords[i].pod_name = p})
C27_EndedTaskIsNeverReplaced ==
  /\ [](\A p \in AllPods :
          (workers[p].st = "done" /\ workers[p].failed = "open")
            => (ErrorsOf(p) = 1 /\ SentBy(p) = 1))
  /\ [][\A p \in AllPods :
          /\ (workers[p].st # "done" /\ workers'[p].st = "done")
               => \/ workers[p].st = "reading" /\ SentBy(p)' = SentBy(p)
                  \/ /\ workers[p].st = "opening"
                     /\ workers'[p].failed = "open"
                     /\ SentBy(p)' = SentBy(p) + 1
          /\ workers[p].st = "done"
               => /\ workers'[p] = workers[p]
                  /\ spawn_count'[p] = spawn_count[p]
                  /\ SentBy(p)' = SentBy(p)]_vars
\* PodB's task, spawned as New, ended after its error record; a later tick
\* has just listed PodB as Running, now Old: no second task, no other record
C27_Witness ==
  /\ pc = "drain"
  /\ ListedOk
  /\ workers[PodB] = [st |-> "done", is_new |-> TRUE, k |-> 0, failed |-> "open"]
  /\ \E i \in 1..Len(pods) :
       pods[i] = [name |-> PodB, status |-> "Running", is_new |-> FALSE]
  /\ spawn_count[PodB] = 1
  /\ SentBy(PodB) = 1
  /\ Len(recv_new) = 1

\* C28: a terminal event that is not the quit key is ignored: handling it
\* returns nothing, the loop goes on with the next iteration, and the pod
\* list, the TailedSet and the buffers are as before.
C28_OtherEventsIgnored ==
  [][(pc = "poll" /\ events # <<>> /\ Head(events) # "key_q" /\ pc' # "poll")
       => \/ pc' = "done" /\ result' \in EventErrs \cup RestoreErrs
          \/ /\ pc' = "list"
             /\ result' = "pending"
             /\ events' = Tail(events)
             /\ UNCHANGED <<pods, tailed_pods, old_logs, new_logs, termVars>>]_vars
\* an event that was read has been ignored: the loop, which tails PodB and
\* has received its record, starts an iteration with the resize event next
C28_Witness ==
  /\ pc = "list"
  /\ result = "pending"
  /\ events = <<"resize">>
  /\ tailed_pods = {PodB}
  /\ Len(old_logs) = 1
  /\ raw_mode

\* C29: in each fallback chain of the log parser a first present key that
\* holds a value which is no string leaves the field absent (the message: the
\* trimmed raw line), also when a later key of the chain holds a string.
C29_NonStringHidesLaterKeys ==
  (Len(ret) > 0 /\ IsObjectText(arg)) =>
    LET v == FromStr(arg)[1]
        sev == FirstPresent(v, SeverityKeys)
        ts == FirstPresent(v, TimestampKeys)
        msg == FirstPresent(v, MessageKeys)
    IN /\ (Len(sev) > 0 /\ ~IsStr(sev)) => ret[1].level = None
       /\ (Len(ts) > 0 /\ ~IsStr(ts)) => ret[1].timestamp = None
       /\ (Len(msg) > 0 /\ ~IsStr(msg)) => IsTrimOf(ret[1].content, arg)
\* "severity", "timestamp" and "message" hold numbers, "level", "time" and
\* "msg" hold strings: no severity, no timestamp, the raw line as message
C29_Witness ==
  /\ arg = ObjectText(<<[k \in {TopKeys[i] : i \in 1..Len(TopKeys)} |->
                           IF k \in {"severity", "timestamp", "message"} THEN "num"
                           ELSE IF k \in {"level", "time", "msg"} THEN "str"
                           ELSE "-"],
                        "str_message">>)
  /\ Len(ret) > 0
  /\ ret[1].level = None
  /\ ret[1].timestamp = None
  /\ ret[1].content = arg

\* C30: when no line of the content is an "image:" line of the base image
\* followed by a tag or digest, update_image_tag returns an error and no
\* content, and the deploy command returns that error at once: the YAML file
\* is not written and kubectl apply is not run.
ContentLines(c) ==
  {SubSeq(c, ij[1], ij[2]) : ij \in
     {ij \in (1..Len(c)) \X (0..Len(c)) :
        /\ ij[1] = 1 \/ c[ij[1] - 1] = "\n"
        /\ ij[2] + 1 >= ij[1]
        /\ ij[2] < Len(c)
        /\ c[ij[2] + 1] = "\n"
        /\ \A k \in ij[1]..ij[2] : c[k] # "\n"}}
NoImageLine(c) == \A line \in ContentLines(c) : ImageLineParts(line) = {}
C30_NoImageLineStopsDeploy ==
  (/\ arg.original_content # None
   /\ arg.pc # "update"
   /\ NoImageLine(arg.original_content[1]))
  => /\ arg.pc = "done"
     /\ ret = Some("Err:update_image_tag")
     /\ arg.updated_content = None
     /\ arg.file = arg.original_content[1]
     /\ arg.writes = 0
     /\ arg.applies = 0
\* the confirmed deploy to a protected environment has stopped on a file that
\* names the base image without a tag, next to a sidecar's image line
C30_Witness ==
  /\ arg.confirmed
  /\ arg.original_content
       = Some(JoinLines(<<Indent \o <<"image:", " ">> \o BaseImage,
                          Indent \o <<"image:", " ", "haproxy", ":", "2.4">> >>))
  /\ ret = Some("Err:update_image_tag")
  /\ arg.file = arg.original_content[1]

C32_PhasesInOrder ==
  /\ [](arg.dashboards > 0 => (arg.apply_ok = Some(TRUE) /\ arg.applies = 1))
  /\ [](arg.commits > 0 => /\ arg.apply_ok = Some(TRUE)
                           /\ arg.dashboard_ok = Some(TRUE)
                           /\ arg.commit = Some(TRUE)
                           /\ arg.dashboards = 1)
  /\ []((arg.apply_ok = Some(FALSE) \/ arg.dashboard_ok = Some(FALSE))
          => arg.commits = 0)
  /\ [](arg.apply_ok = Some(FALSE) => arg.dashboards = 0)
  /\ [](arg.git # None <=> arg.commits = 1)
  /\ [][arg'.dashboards # arg.dashboards
          => (arg.pc = "dashboard" /\ arg.dashboards = 0)]_vars
  /\ [][arg'.commits # arg.commits
          => (arg.pc = "commit" /\ arg.commits = 0 /\ ret' = Some("Ok"))]_vars
\* the whole sequence ran: applied, dashboard closed normally, commit confirmed
C32_Witness ==
  /\ arg.pc = "done"
  /\ arg.applies = 1
  /\ arg.dashboards = 1
  /\ arg.commits = 1
  /\ arg.commit = Some(TRUE)

\* the deploy command has returned after a failed kubectl apply or after a
\* dashboard error
FailedDeploy ==
  /\ arg.pc = "done"
  /\ (arg.apply_ok = Some(FALSE) \/ arg.dashboard_ok = Some(FALSE))
PhaseErr ==
  IF arg.dashboard_ok = Some(FALSE) THEN Some("Err:dashboard")
  ELSE IF arg.applies = 0 THEN Some("Err:kubectl_not_run")
  ELSE Some("Err:kubectl_apply_failed")
\* C33 as stated: after a failed apply or a dashboard error the command returns
\* an error, the file holds its original content whenever the operator
\* confirmed the revert, and the updated content otherwise.
C33_RestoredWhenConfirmed ==
  FailedDeploy =>
    /\ ret \notin {None, Some("Ok")}
    /\ arg.revert = Some(TRUE) => arg.file = arg.original_content[1]
    /\ arg.revert # Some(TRUE) => arg.file = arg.updated_content[1]
\* C33: after a failed apply or a dashboard error the command returns an
\* error in every case.  A confirmed revert whose write succeeds restores the
\* original content and returns the phase's error; a confirmed revert whose
\* write fails returns the write's error and restores nothing; with the revert
\* declined, the prompt cancelled, or no prompt shown because kubectl could not
\* be executed, the file keeps the updated content.
C33_RestoredWhenConfirmedAndWritten ==
  FailedDeploy =>
    /\ ret \notin {None, Some("Ok")}
    /\ (arg.revert = Some(TRUE) /\ ret # Some("Err:write"))
         => (arg.file = arg.original_content[1] /\ ret = PhaseErr)
    /\ (arg.revert = Some(TRUE) /\ ret = Some("Err:write"))
         => arg.file \in {arg.updated_content[1], <<>>}
    /\ arg.revert = Some(FALSE)
         => (arg.file = arg.updated_content[1] /\ ret = PhaseErr)
    /\ arg.revert = None
         => /\ arg.file = arg.updated_content[1]
            /\ ret \in {Some("Err:prompt"), Some("Err:kubectl_not_run")}
\* kubectl apply failed, the operator confirmed, and the file is back to an
\* original content that differs from the updated one
C33_Witness ==
  /\ FailedDeploy
  /\ arg.apply_ok = Some(FALSE)
  /\ arg.revert = Some(TRUE)
  /\ ret = Some("Err:kubectl_apply_failed")
  /\ arg.file = arg.original_content[1]
  /\ arg.file # arg.updated_content[1]

====
